---- MODULE Spec2Model ----
(***************************************************************************)
(* Model of package hyper (hyper.go): a fluent builder around net/http.    *)
(* A Request accumulates method, URL, headers, body, context, client and   *)
(* a response-check hook; Do hands the request to a Clienter.  A Response  *)
(* wraps the http.Response and offers Raw and ParseJson.                    *)
(*                                                                         *)
(* Pointers of the Go program are modelled as references into small heaps  *)
(* (header maps, url.URL values, body streams), so that aliasing between a *)
(* builder and its clone is something the model can show or rule out.      *)
(* Errors and byte strings are sequences of string tokens.                 *)
(***************************************************************************)
EXTENDS Integers, Sequences, FiniteSets, TLC

\* ---------------------------------------------------------------- bounds
MaxSteps == 3

\* ---------------------------------------------------------------- inputs
Builders == {"orig", "clone"}
Methods == {"GET", "POST", "DELETE", "PUT", "PATCH", "OPTIONS"}
HeaderKeys == {"x-a", "content-type"}
HeaderLists == {<<>>, <<"v1">>, <<"v2", "v1">>}
QueryKeys == {"a", "b"}
QueryPairs == {<<"a", "1">>, <<"a", "2">>, <<"b", "1">>}
UrlInputs == {"http://x/", "http://x/?b=1&a=2", "http://x/?a=%zz", ":bad"}
Clients == {"nil", "mock"}
Hooks == {"nil", "Check200", "custom"}
Contexts == {"background", "ctx1"}
BodyData == <<"x", "y">>
JsonVals == {[t |-> "int", n |-> 1], [t |-> "map", n |-> 1], [t |-> "chan", n |-> 0]}
Refs == {1, 2}
NilRef == 0

NoErr == <<>>
NoResp == <<>>

Min(a, b) == IF a < b THEN a ELSE b

\* ------------------------------------------------ net/http, net/url, json
\* textproto.CanonicalMIMEHeaderKey, as used by Header.Set / Header.Add
Canon(key) ==
  CASE key = "x-a" -> "X-A"
    [] key = "content-type" -> "Content-Type"
    [] OTHER -> key

CanonKeys == {Canon(k) : k \in HeaderKeys}
EmptyHeader == [k \in CanonKeys |-> <<>>]

\* Header.Set as it would be if it kept the values already there
HeaderSetAppends(h, key, value) == [h EXCEPT ![Canon(key)] = Append(@, value)]

\* http.Header.Set: replaces whatever the key held
HeaderSet(h, key, value) == [h EXCEPT ![Canon(key)] = <<value>>]

\* http.Header.Add: appends to what the key holds
HeaderAdd(h, key, value) == [h EXCEPT ![Canon(key)] = Append(@, value)]

\* http.Header.Values
HeaderValues(h, key) == h[Canon(key)]

\* the loop of SetHeader over values, from position index on
RECURSIVE SetHeaderLoop(_, _, _, _)
SetHeaderLoop(h, key, values, index) ==
  IF index > Len(values) THEN h
  ELSE SetHeaderLoop(IF index = 1 THEN HeaderSet(h, key, values[index])
                                  ELSE HeaderAdd(h, key, values[index]),
                     key, values, index + 1)

MissingValuesErr(key) == <<"missing values for set header ", key>>
NilUrlErr == <<"cannot add query param to nil url">>

\* url.Parse on the inputs of UrlInputs: the raw query is kept as written,
\* one segment per "&"-separated piece; ok is FALSE for a piece whose
\* percent-escape does not decode (url.Parse does not look into the query)
Seg(k, v, ok) == [k |-> k, v |-> v, ok |-> ok]

UrlParse(u) ==
  CASE u = "http://x/" -> [err |-> NoErr, base |-> "http://x/", rawQuery |-> <<>>]
    [] u = "http://x/?b=1&a=2" ->
         [err |-> NoErr, base |-> "http://x/",
          rawQuery |-> <<Seg("b", "1", TRUE), Seg("a", "2", TRUE)>>]
    [] u = "http://x/?a=%zz" ->
         [err |-> NoErr, base |-> "http://x/", rawQuery |-> <<Seg("a", "%zz", FALSE)>>]
    [] OTHER -> [err |-> <<"parse ", u, ": missing protocol scheme">>,
                 base |-> "", rawQuery |-> <<>>]

\* url.Values of a raw query (URL.Query: ParseQuery with its error dropped,
\* so a piece that does not decode is skipped)
RECURSIVE ParseQuery(_)
ParseQuery(raw) ==
  IF raw = <<>> THEN [k \in QueryKeys |-> <<>>]
  ELSE LET rest == ParseQuery(SubSeq(raw, 1, Len(raw) - 1))
           s == raw[Len(raw)]
       IN IF s.ok THEN [rest EXCEPT ![s.k] = Append(@, s.v)] ELSE rest

\* Values.Set, which SetQueryParam would use if it replaced
ValuesSet(q, key, value) == [q EXCEPT ![key] = <<value>>]

\* url.Values.Add
ValuesAdd(q, key, value) == [q EXCEPT ![key] = Append(@, value)]

\* url.Values.Encode: keys in sorted order, each key's values in order
SortedQueryKeys == <<"a", "b">>

RECURSIVE EncodeFrom(_, _)
EncodeFrom(q, i) ==
  IF i > Len(SortedQueryKeys) THEN <<>>
  ELSE LET k == SortedQueryKeys[i]
       IN [j \in 1..Len(q[k]) |-> Seg(k, q[k][j], TRUE)] \o EncodeFrom(q, i + 1)

ValuesEncode(q) == EncodeFrom(q, 1)

\* json.Marshal on the values of JsonVals
Marshal(v) ==
  CASE v.t = "int" -> [err |-> NoErr, data |-> <<ToString(v.n)>>]
    [] v.t = "map" -> [err |-> NoErr, data |-> <<"{", "\"a\"", ":", ToString(v.n), "}">>]
    [] OTHER -> [err |-> <<"json: unsupported type: ", "chan int">>, data |-> <<>>]

\* json decoding of a byte string: it decodes iff it is the encoding of a value
Decodes(data) == \E v \in JsonVals : Marshal(v).err = NoErr /\ Marshal(v).data = data

\* Check200
Check200(resp) ==
  IF resp.code # 200 THEN <<"[", ToString(resp.code), "] ", resp.status>> ELSE NoErr

CustomErr == <<"rejected by custom check">>

\* the error a response-check hook returns for a response
HookResult(hook, resp) ==
  CASE hook = "Check200" -> Check200(resp)
    [] hook = "custom" -> CustomErr
    [] OTHER -> NoErr

\* the outcomes of Clienter.Do: an error, or a response whose body is a stream
RespBody(data, readErr, closeErr) ==
  [data |-> data, pos |-> 0, readErr |-> readErr, closeErr |-> closeErr, closes |-> 0]

Resp(code, status, body) == [code |-> code, status |-> status, body |-> body]

Responses ==
  { Resp(200, "200 OK", RespBody(<<"1">>, FALSE, FALSE)),
    Resp(200, "200 OK", RespBody(<<"1">>, FALSE, TRUE)),
    Resp(200, "200 OK", RespBody(<<"oops">>, FALSE, FALSE)),
    Resp(200, "200 OK", RespBody(<<"oops">>, FALSE, TRUE)),
    Resp(200, "200 OK", RespBody(<<"1">>, TRUE, FALSE)),
    Resp(404, "404 Not Found", RespBody(<<"not found">>, FALSE, FALSE)) }

TransportErr == <<"dial tcp: connection refused">>

Transports ==
  {[err |-> TransportErr, resp |-> NoResp]} \cup {[err |-> NoErr, resp |-> <<r>>] : r \in Responses}

\* a failure, a 200 and a 404
SomeTransports ==
  { [err |-> TransportErr, resp |-> NoResp],
    [err |-> NoErr, resp |-> <<Resp(200, "200 OK", RespBody(<<"1">>, FALSE, FALSE))>>],
    [err |-> NoErr, resp |-> <<Resp(404, "404 Not Found", RespBody(<<"not found">>, FALSE, FALSE))>>] }

\* ------------------------------------------------------------------ state
VARIABLES
  req,      \* builder -> the Request struct (fields, and references into the heaps)
  headers,  \* reference -> http.Header map
  urls,     \* reference -> url.URL value
  bodies,   \* reference -> request body stream (io.ReadCloser)
  resp,     \* the *Response the caller got from the last Do (NoResp: nil)
  last,     \* the last call: its arguments, the builder before it, what it returned
  steps     \* number of calls made so far

vars == <<req, headers, urls, bodies, resp, last, steps>>

\* type Request struct, with request.* flattened into it
Absent ==
  [exists |-> FALSE, method |-> "", ctx |-> "", hdr |-> NilRef, url |-> NilRef,
   body |-> NilRef, err |-> NoErr, client |-> "nil", onResponseCheck |-> "nil"]

\* New
New == [Absent EXCEPT !.exists = TRUE, !.hdr = 1]

NoUrl == [base |-> "", rawQuery |-> <<>>]
NoBody == [data |-> <<>>, pos |-> 0, closed |-> FALSE, nop |-> FALSE]
NoArg == [t |-> "", n |-> 0]

\* what a builder looks like from outside: its fields with references followed
View(b) ==
  [exists |-> req[b].exists,
   method |-> req[b].method,
   ctx |-> req[b].ctx,
   header |-> IF req[b].hdr = NilRef THEN EmptyHeader ELSE headers[req[b].hdr],
   hasUrl |-> req[b].url # NilRef,
   url |-> IF req[b].url = NilRef THEN NoUrl ELSE urls[req[b].url],
   hasBody |-> req[b].body # NilRef,
   body |-> IF req[b].body = NilRef THEN NoBody ELSE bodies[req[b].body],
   err |-> req[b].err,
   client |-> req[b].client,
   onResponseCheck |-> req[b].onResponseCheck]

AbsentView ==
  [exists |-> FALSE, method |-> "", ctx |-> "", header |-> EmptyHeader, hasUrl |-> FALSE,
   url |-> NoUrl, hasBody |-> FALSE, body |-> NoBody, err |-> NoErr, client |-> "nil",
   onResponseCheck |-> "nil"]

NoTransport == [err |-> NoErr, resp |-> NoResp]

NoCall ==
  [op |-> "New", who |-> "orig", key |-> "", vals |-> <<>>, arg |-> NoArg,
   pre |-> [b \in Builders |-> AbsentView],
   err |-> NoErr, hasResp |-> FALSE, tr |-> NoTransport,
   transportCalls |-> 0, hookCalls |-> 0, hadBody |-> FALSE, sent |-> <<>>,
   reads |-> 0, closes |-> 0, raw |-> <<>>, first |-> FALSE, done |-> {}]

\* the record of a call op on builder who, made in the current state; done
\* keeps the builders that have been executed so far, first tells a Do that
\* is the first of its builder
Call(op, who) ==
  [NoCall EXCEPT !.op = op, !.who = who, !.pre = [b \in Builders |-> View(b)],
                 !.done = last.done]

Init ==
  /\ req = [b \in Builders |-> IF b = "orig" THEN New ELSE Absent]
  /\ headers = [i \in Refs |-> EmptyHeader]
  /\ urls = [i \in Refs |-> NoUrl]
  /\ bodies = [i \in Refs |-> NoBody]
  /\ resp = NoResp
  /\ last = NoCall
  /\ steps = 0

Tick == steps < MaxSteps /\ steps' = steps + 1

\* a reference no other builder holds: where a newly allocated value is put
FreshUrl(b) == CHOOSE i \in Refs : \A c \in Builders \ {b} : req[c].url # i
FreshBody(b) == CHOOSE i \in Refs : \A c \in Builders \ {b} : req[c].body # i

\* --------------------------------------------------------- configuration
\* Get, Post, Delete, Put, Patch, Options
Method(b, m) ==
  /\ req[b].exists /\ Tick
  /\ req' = [req EXCEPT ![b].method = m]
  /\ last' = [Call("Method", b) EXCEPT !.key = m]
  /\ UNCHANGED <<headers, urls, bodies, resp>>

SetClient(b, client) ==
  /\ req[b].exists /\ Tick
  /\ req' = [req EXCEPT ![b].client = client]
  /\ last' = [Call("SetClient", b) EXCEPT !.key = client]
  /\ UNCHANGED <<headers, urls, bodies, resp>>

OnResponseCheck(b, f) ==
  /\ req[b].exists /\ Tick
  /\ req' = [req EXCEPT ![b].onResponseCheck = f]
  /\ last' = [Call("OnResponseCheck", b) EXCEPT !.key = f]
  /\ UNCHANGED <<headers, urls, bodies, resp>>

\* Context: the request is replaced by a shallow copy bound to ctx, which
\* shares the header map, the URL and the body with the one it replaces
Context(b, ctx) ==
  /\ req[b].exists /\ Tick
  /\ req' = [req EXCEPT ![b].ctx = ctx]
  /\ last' = [Call("Context", b) EXCEPT !.key = ctx]
  /\ UNCHANGED <<headers, urls, bodies, resp>>

SetHeader(b, key, values) ==
  /\ req[b].exists /\ Tick
  /\ IF Len(values) = 0
       THEN /\ req' = [req EXCEPT ![b].err = MissingValuesErr(key)]
            /\ UNCHANGED headers
       ELSE /\ headers' = [headers EXCEPT ![req[b].hdr] = SetHeaderLoop(@, key, values, 1)]
            /\ UNCHANGED req
  /\ last' = [Call("SetHeader", b) EXCEPT !.key = key, !.vals = values]
  /\ UNCHANGED <<urls, bodies, resp>>

SetQueryParam(b, key, value) ==
  /\ req[b].exists /\ Tick
  /\ IF req[b].url = NilRef
       THEN /\ req' = [req EXCEPT ![b].err = NilUrlErr]
            /\ UNCHANGED urls
       ELSE /\ urls' = [urls EXCEPT ![req[b].url].rawQuery =
                          ValuesEncode(ValuesAdd(ParseQuery(@), key, value))]
            /\ UNCHANGED req
  /\ last' = [Call("SetQueryParam", b) EXCEPT !.key = key, !.vals = <<value>>]
  /\ UNCHANGED <<headers, bodies, resp>>

\* Url as it would be if it assigned the result of Parse to r.err always
UrlAssignsErr(old, parseErr) == parseErr

\* the deferred error after Url: assigned only when the parse failed
UrlErr(old, parseErr) == IF parseErr # NoErr THEN parseErr ELSE old

Url(b, u) ==
  /\ req[b].exists /\ Tick
  /\ LET res == UrlParse(u)
     IN IF res.err # NoErr
          THEN /\ req' = [req EXCEPT ![b].err = UrlErr(@, res.err)]
               /\ UNCHANGED urls
          ELSE /\ req' = [req EXCEPT ![b].url = FreshUrl(b), ![b].err = UrlErr(@, res.err)]
               /\ urls' = [urls EXCEPT ![FreshUrl(b)] =
                             [base |-> res.base, rawQuery |-> res.rawQuery]]
  /\ last' = [Call("Url", b) EXCEPT !.key = u]
  /\ UNCHANGED <<headers, bodies, resp>>

\* Body: rc is a stream of the caller's, open and unread
Body(b, data) ==
  /\ req[b].exists /\ Tick
  /\ req' = [req EXCEPT ![b].body = FreshBody(b)]
  /\ bodies' = [bodies EXCEPT ![FreshBody(b)] =
                  [data |-> data, pos |-> 0, closed |-> FALSE, nop |-> FALSE]]
  /\ last' = [Call("Body", b) EXCEPT !.vals = data]
  /\ UNCHANGED <<headers, urls, resp>>

\* Json as it would be if it set the header once Marshal had succeeded
JsonHeaderOnSuccess(h, marshalErr) ==
  IF marshalErr # NoErr THEN h
  ELSE SetHeaderLoop(h, "content-type", <<"application/json">>, 1)

\* the header after Json: SetHeader("content-type", ...) runs before Marshal
JsonHeader(h, marshalErr) == SetHeaderLoop(h, "content-type", <<"application/json">>, 1)

Json(b, body) ==
  /\ req[b].exists /\ Tick
  /\ LET m == Marshal(body)
     IN /\ headers' = [headers EXCEPT ![req[b].hdr] = JsonHeader(@, m.err)]
        /\ IF m.err # NoErr
             THEN /\ req' = [req EXCEPT ![b].err = m.err]
                  /\ UNCHANGED bodies
             ELSE /\ req' = [req EXCEPT ![b].body = FreshBody(b)]
                  /\ bodies' = [bodies EXCEPT ![FreshBody(b)] =
                                  [data |-> m.data, pos |-> 0, closed |-> FALSE, nop |-> TRUE]]
  /\ last' = [Call("Json", b) EXCEPT !.arg = body]
  /\ UNCHANGED <<urls, resp>>

\* -------------------------------------------------------------- execution
\* what reading a request body to its end yields
Yield(s) == IF s.closed THEN <<>> ELSE SubSeq(s.data, s.pos + 1, Len(s.data))

\* the transport reads n more chunks of the request body and may close it
\* (the Close of the io.NopCloser that Json installs does nothing)
Consume(s, n, close) ==
  [s EXCEPT !.pos = IF s.closed THEN @ ELSE Min(Len(s.data), @ + n),
            !.closed = @ \/ (close /\ ~s.nop)]

\* Do as it would be if it never ran the response check
DoSkipsCheck(r, t) ==
  IF r.err # NoErr
    THEN [resp |-> NoResp, err |-> r.err, transportCalls |-> 0, hookCalls |-> 0]
  ELSE IF t.err # NoErr
    THEN [resp |-> NoResp, err |-> t.err, transportCalls |-> 1, hookCalls |-> 0]
  ELSE [resp |-> t.resp, err |-> NoErr, transportCalls |-> 1, hookCalls |-> 0]

\* what Do returns for builder fields r when the transport, if asked, answers t
DoCall(r, t) ==
  IF r.err # NoErr
    THEN [resp |-> NoResp, err |-> r.err, transportCalls |-> 0, hookCalls |-> 0]
  ELSE IF t.err # NoErr
    THEN [resp |-> NoResp, err |-> t.err, transportCalls |-> 1, hookCalls |-> 0]
  ELSE IF r.onResponseCheck # "nil" /\ HookResult(r.onResponseCheck, t.resp[1]) # NoErr
    THEN [resp |-> NoResp, err |-> HookResult(r.onResponseCheck, t.resp[1]),
          transportCalls |-> 1, hookCalls |-> 1]
  ELSE [resp |-> t.resp, err |-> NoErr, transportCalls |-> 1,
        hookCalls |-> IF r.onResponseCheck # "nil" THEN 1 ELSE 0]

\* the effect of Do on the builder and on the request body it hands over
DoEffects(b, t, n, close) ==
  LET d == DoCall(req[b], t)
  IN /\ req' = IF req[b].err = NoErr /\ req[b].client = "nil"
                 THEN [req EXCEPT ![b].client = "default"] ELSE req
     /\ bodies' = IF d.transportCalls > 0 /\ req[b].body # NilRef
                    THEN [bodies EXCEPT ![req[b].body] = Consume(@, n, close)] ELSE bodies

\* the record of a Do made in the current state
DoRecord(op, b, t) ==
  LET d == DoCall(req[b], t)
  IN [Call(op, b) EXCEPT
        !.err = d.err, !.hasResp = d.resp # NoResp,
        !.tr = IF d.transportCalls > 0 THEN t ELSE NoTransport,
        !.transportCalls = d.transportCalls, !.hookCalls = d.hookCalls,
        !.first = b \notin last.done, !.done = @ \cup {b},
        !.hadBody = d.transportCalls > 0 /\ req[b].body # NilRef,
        !.sent = IF d.transportCalls > 0 /\ req[b].body # NilRef
                   THEN Yield(bodies[req[b].body]) ELSE <<>>]

Do(b, t, n, close) ==
  /\ req[b].exists /\ Tick
  /\ DoEffects(b, t, n, close)
  /\ resp' = DoCall(req[b], t).resp
  /\ last' = DoRecord("Do", b, t)
  /\ UNCHANGED <<headers, urls>>

\* io.ReadAll on a response body
ReadAll(body) ==
  IF body.closes > 0 THEN [raw |-> <<>>, err |-> <<"http: read on closed response body">>]
  ELSE IF body.readErr THEN [raw |-> <<>>, err |-> <<"unexpected EOF">>]
  ELSE [raw |-> SubSeq(body.data, body.pos + 1, Len(body.data)), err |-> NoErr]

\* Response.Raw: the deferred Close runs however ReadAll ends
RawCall(body) ==
  LET got == ReadAll(body)
  IN [raw |-> got.raw, err |-> got.err, closes |-> 1,
      body |-> [body EXCEPT !.pos = IF got.err = NoErr THEN Len(body.data) ELSE @,
                            !.closes = @ + 1]]

\* Response.ParseJson: Close is reached only when Decode succeeded
ParseJsonCall(body) ==
  LET got == ReadAll(body)
      decoded == got.err = NoErr /\ Decodes(got.raw)
  IN [err |-> IF got.err # NoErr THEN got.err
              ELSE IF ~decoded THEN <<"invalid character">>
              ELSE IF body.closeErr THEN <<"close error">>
              ELSE NoErr,
      decodeFailed |-> ~decoded,
      closes |-> IF decoded THEN 1 ELSE 0,
      body |-> [body EXCEPT !.pos = IF got.err = NoErr THEN Len(body.data) ELSE @,
                            !.closes = IF decoded THEN @ + 1 ELSE @]]

\* what DoAndParseJson returns once its Do returned d
DoAndParseJsonCall(d) ==
  IF d.err # NoErr
    THEN IF d.resp # NoResp
           THEN LET got == ReadAll(d.resp[1].body)
                IN [err |-> <<"error: ">> \o d.err \o <<", content=">>
                              \o (IF got.err # NoErr THEN got.err ELSE got.raw),
                    reads |-> 1, closes |-> 0]
           ELSE [err |-> <<"error: ">> \o d.err, reads |-> 0, closes |-> 0]
  ELSE LET p == ParseJsonCall(d.resp[1].body)
       IN [err |-> p.err, reads |-> 1, closes |-> p.closes]

DoAndParseJson(b, t, n, close) ==
  /\ req[b].exists /\ Tick
  /\ DoEffects(b, t, n, close)
  /\ LET out == DoAndParseJsonCall(DoCall(req[b], t))
     IN last' = [DoRecord("DoAndParseJson", b, t) EXCEPT
                   !.err = out.err, !.hasResp = FALSE,
                   !.reads = out.reads, !.closes = out.closes]
  /\ UNCHANGED <<headers, urls, resp>>

Raw ==
  /\ resp # NoResp /\ Tick
  /\ LET out == RawCall(resp[1].body)
     IN /\ resp' = <<[resp[1] EXCEPT !.body = out.body]>>
        /\ last' = [Call("Raw", "orig") EXCEPT
                      !.err = out.err, !.raw = out.raw, !.reads = 1, !.closes = out.closes]
  /\ UNCHANGED <<req, headers, urls, bodies>>

ParseJson ==
  /\ resp # NoResp /\ Tick
  /\ LET out == ParseJsonCall(resp[1].body)
     IN /\ resp' = <<[resp[1] EXCEPT !.body = out.body]>>
        /\ last' = [Call("ParseJson", "orig") EXCEPT
                      !.err = out.err, !.reads = 1, !.closes = out.closes,
                      !.key = IF out.decodeFailed THEN "decode failed" ELSE "decoded"]
  /\ UNCHANGED <<req, headers, urls, bodies>>

\* ---------------------------------------------------------------- cloning
\* Clone as it would be if the URL were copied by reference
SharedUrl(src) == src

\* http.Request.Clone copies the header map and the URL into new values
ClonedHeader(src) == CHOOSE i \in Refs : i # src
ClonedUrl(src) == IF src = NilRef THEN NilRef ELSE CHOOSE i \in Refs : i # src

\* the Request that CloneWithContext builds from r: Body is the same stream,
\* onResponseCheck is not among the fields it sets
CloneRequest(r, ctx) ==
  [exists |-> TRUE, method |-> r.method, ctx |-> ctx, hdr |-> ClonedHeader(r.hdr),
   url |-> ClonedUrl(r.url), body |-> r.body, err |-> r.err, client |-> r.client,
   onResponseCheck |-> "nil"]

\* the step both cloning methods take, op naming the method called
CloneStep(op, ctx) ==
  /\ req["orig"].exists /\ ~req["clone"].exists
  /\ LET r == req["orig"]
         c == CloneRequest(r, ctx)
     IN /\ req' = [req EXCEPT !["clone"] = c]
        /\ headers' = [headers EXCEPT ![c.hdr] = headers[r.hdr]]
        /\ urls' = IF c.url = NilRef THEN urls ELSE [urls EXCEPT ![c.url] = urls[r.url]]
  /\ last' = [Call(op, "orig") EXCEPT !.key = ctx]
  /\ UNCHANGED <<bodies, resp, steps>>

CloneWithContext(ctx) == CloneStep("CloneWithContext", ctx)

\* Clone: CloneWithContext(r.request.Context()), which is the background
\* context when none was attached
Clone == CloneStep("Clone", IF req["orig"].ctx = "" THEN "background" ELSE req["orig"].ctx)

\* --------------------------------------------------------- specifications
\* what the transport may do with the request body: read n more chunks of
\* it, and close it or not
Reads(b) == 0..(IF req[b].body = NilRef THEN 0 ELSE Len(bodies[req[b].body].data))
Closes(b) == IF req[b].body = NilRef THEN {FALSE} ELSE BOOLEAN
ReadsAll(b) == IF req[b].body = NilRef THEN 0 ELSE Len(bodies[req[b].body].data)

\* Spec: one builder is configured with every configuration call and executed
Next ==
  \/ \E m \in Methods : Method("orig", m)
  \/ \E c \in Clients : SetClient("orig", c)
  \/ \E f \in Hooks : OnResponseCheck("orig", f)
  \/ \E ctx \in Contexts : Context("orig", ctx)
  \/ \E key \in HeaderKeys, values \in HeaderLists : SetHeader("orig", key, values)
  \/ \E kv \in QueryPairs : SetQueryParam("orig", kv[1], kv[2])
  \/ \E u \in UrlInputs : Url("orig", u)
  \/ Body("orig", BodyData)
  \/ \E v \in JsonVals : Json("orig", v)
  \/ \E t \in SomeTransports : Do("orig", t, ReadsAll("orig"), TRUE)

Spec == Init /\ [][Next]_vars

\* SpecExec: one builder is executed against every transport outcome and the
\* response is consumed
NextExec ==
  \/ \E c \in Clients : SetClient("orig", c)
  \/ \E f \in Hooks : OnResponseCheck("orig", f)
  \/ \E u \in UrlInputs : Url("orig", u)
  \/ \E t \in Transports : Do("orig", t, ReadsAll("orig"), TRUE)
  \/ \E t \in Transports : DoAndParseJson("orig", t, ReadsAll("orig"), TRUE)
  \/ Raw
  \/ ParseJson

SpecExec == Init /\ [][NextExec]_vars

\* SpecClone: a builder is configured, cloned once, and the two are then
\* configured and executed in any interleaving
NextClone ==
  \/ Clone
  \/ CloneWithContext("ctx1")
  \/ \E b \in Builders, m \in {"GET", "POST"} : Method(b, m)
  \/ \E b \in Builders : SetClient(b, "mock")
  \/ \E b \in Builders : OnResponseCheck(b, "Check200")
  \/ \E b \in Builders, values \in {<<>>, <<"v1">>} : SetHeader(b, "x-a", values)
  \/ \E b \in Builders : SetQueryParam(b, "a", "1")
  \/ \E b \in Builders, u \in {"http://x/?b=1&a=2", ":bad"} : Url(b, u)
  \/ \E b \in Builders : Body(b, BodyData)
  \/ \E b \in Builders : Json(b, [t |-> "map", n |-> 1])
  \/ \E b \in Builders, t \in SomeTransports \ {[err |-> TransportErr, resp |-> NoResp]} :
       \E n \in Reads(b), c \in Closes(b) : Do(b, t, n, c)

SpecClone == Init /\ [][NextClone]_vars

\* ------------------------------------------------------------- properties
ConfigOps ==
  {"Method", "SetClient", "OnResponseCheck", "Context", "SetHeader", "SetQueryParam",
   "Url", "Body", "Json"}

Range(f) == {f[i] : i \in DOMAIN f}
Contains(s, sub) == \E i \in 0..(Len(s) - Len(sub)) : SubSeq(s, i + 1, i + Len(sub)) = sub

\* the acting builder before and after the last call
Pre == last.pre[last.who]
Post == View(last.who)
Other == IF last.who = "orig" THEN "clone" ELSE "orig"

\* the last call was a configuration call that failed
Failed ==
  \/ last.op = "SetHeader" /\ last.vals = <<>>
  \/ last.op = "SetQueryParam" /\ ~Pre.hasUrl
  \/ last.op = "Url" /\ UrlParse(last.key).err # NoErr
  \/ last.op = "Json" /\ Marshal(last.arg).err # NoErr

\* C1: a failed configuration call leaves a deferred error, no configuration
\* call clears a deferred error, and Do on a builder with a deferred error
\* returns no response and that error, calling neither transport nor hook.
C1_StickyError ==
  /\ Failed => Post.err # NoErr
  /\ (last.op \in ConfigOps /\ Pre.err # NoErr) => Post.err # NoErr
  /\ (last.op = "Do" /\ Pre.err # NoErr) =>
       /\ ~last.hasResp /\ resp = NoResp
       /\ last.err = Pre.err
       /\ last.transportCalls = 0 /\ last.hookCalls = 0

\* SetQueryParam failed for want of a URL, a URL was then set, and Do ran
C1_Witness ==
  /\ last.op = "Do" /\ steps = 3
  /\ Pre.err = NilUrlErr /\ Pre.hasUrl
  /\ last.err = NilUrlErr /\ last.transportCalls = 0

\* C2: Do without deferred error calls the transport once; a transport error
\* is returned with no response and without calling the hook; otherwise a
\* hook that is set runs once, its error is returned with no response, and
\* without such an error the response is returned with a nil error.
C2_DoOutcome ==
  /\ last.op = "Do" => last.transportCalls <= 1
  /\ (last.op = "Do" /\ Pre.err = NoErr) =>
       /\ last.transportCalls = 1
       /\ last.tr.err # NoErr =>
            last.hookCalls = 0 /\ ~last.hasResp /\ resp = NoResp /\ last.err = last.tr.err
       /\ last.tr.err = NoErr =>
            LET e == HookResult(Pre.onResponseCheck, last.tr.resp[1])
            IN /\ last.hookCalls = (IF Pre.onResponseCheck = "nil" THEN 0 ELSE 1)
               /\ e # NoErr => last.err = e /\ ~last.hasResp /\ resp = NoResp
               /\ e = NoErr => last.err = NoErr /\ last.hasResp /\ resp = last.tr.resp

\* Check200 rejected a 404 that the transport returned
C2_Witness ==
  /\ last.op = "Do" /\ Pre.err = NoErr /\ Pre.onResponseCheck = "Check200"
  /\ last.tr.err = NoErr /\ last.tr.resp[1].code = 404
  /\ last.hookCalls = 1 /\ ~last.hasResp /\ Contains(last.err, <<"404">>)

\* the hook rejected a response that the transport returned
HookRejected ==
  /\ last.transportCalls = 1 /\ last.tr.err = NoErr /\ last.hookCalls = 1
  /\ HookResult(Pre.onResponseCheck, last.tr.resp[1]) # NoErr

\* C3: when the hook rejects the response, DoAndParseJson reads the body of
\* that response, and its error includes the body text unless the read fails.
C3_ErrorHasBody ==
  (last.op = "DoAndParseJson" /\ HookRejected) =>
    /\ last.reads = 1
    /\ ~last.tr.resp[1].body.readErr => Contains(last.err, last.tr.resp[1].body.data)

\* C4: Raw and ParseJson each close the body exactly once however they end,
\* and ParseJson returns the decode error when decoding fails.
C4_BodyClosedOnce ==
  /\ last.op = "Raw" => last.closes = 1
  /\ last.op = "ParseJson" =>
       /\ last.closes = 1
       /\ last.key = "decode failed" => last.err \notin {NoErr, <<"close error">>}

\* C5: a clone has the method, URL, headers, deferred error, client and hook
\* of the original, so Do answers on it as on the original for any transport
\* outcome.
C5_CloneSameConfig ==
  last.op \in {"Clone", "CloneWithContext"} =>
    /\ View("clone").method = View("orig").method
    /\ View("clone").hasUrl = View("orig").hasUrl
    /\ View("clone").url = View("orig").url
    /\ View("clone").header = View("orig").header
    /\ View("clone").err = View("orig").err
    /\ View("clone").client = View("orig").client
    /\ View("clone").onResponseCheck = View("orig").onResponseCheck
    /\ \A t \in Transports : DoCall(req["clone"], t) = DoCall(req["orig"], t)

\* the fields of a builder that C6 speaks of
Config(v) ==
  [header |-> v.header, hasUrl |-> v.hasUrl, url |-> v.url, method |-> v.method,
   client |-> v.client, err |-> v.err]

\* C6: a configuration call on the original or on the clone, failed or not,
\* leaves the headers, URL, method, client and deferred error of the other
\* builder as they were.
C6_CloneIndependent ==
  (last.op \in ConfigOps /\ req[Other].exists) =>
    Config(View(Other)) = Config(last.pre[Other])

\* a URL was set, the builder cloned, and a query parameter added to the
\* original alone
C6_Witness ==
  /\ last.op = "SetQueryParam" /\ last.who = "orig" /\ steps = 2
  /\ Pre.hasUrl /\ req["clone"].exists /\ View("clone").hasUrl
  /\ View("orig").url # View("clone").url
  /\ View("clone").url = last.pre["clone"].url

\* C7: the first Do of a builder hands the transport a body that yields all
\* the bytes configured, whatever the other builder did with its own.
C7_FullBodySent ==
  (last.op = "Do" /\ last.hadBody /\ last.first) =>
    last.sent = Pre.body.data

\* how often the pair (k, v) occurs in a raw query
Occurrences(raw, k, v) == Cardinality({i \in 1..Len(raw) : raw[i].k = k /\ raw[i].v = v})

\* SetQueryParam without a URL records the nil-url error and sets no URL
C8_NoUrlCase ==
  (last.op = "SetQueryParam" /\ ~Pre.hasUrl) =>
    Post.err = NilUrlErr /\ ~Post.hasUrl /\ Post.url = Pre.url

\* C8 as stated: without a URL the nil-url error is recorded and no URL is
\* set; with a URL every pair of the query is still there afterwards, the
\* pair (k, v) once more than before, and no error is recorded.
C8_KeepsEveryPair ==
  /\ C8_NoUrlCase
  /\ (last.op = "SetQueryParam" /\ Pre.hasUrl) =>
       /\ Post.err = Pre.err
       /\ \A i \in 1..Len(Pre.url.rawQuery) :
            LET s == Pre.url.rawQuery[i]
            IN Occurrences(Post.url.rawQuery, s.k, s.v) >=
                 Occurrences(Pre.url.rawQuery, s.k, s.v)
       /\ Occurrences(Post.url.rawQuery, last.key, last.vals[1]) =
            Occurrences(Pre.url.rawQuery, last.key, last.vals[1]) + 1

\* C8 (amended): without a URL the nil-url error is recorded and no URL is
\* set; with a URL the values that the query decodes to are, for every key,
\* those it decoded to before, in order, followed by v for the key k, and no
\* error is recorded.  Pairs that do not decode are not kept.
C8_KeepsDecodedPairs ==
  /\ C8_NoUrlCase
  /\ (last.op = "SetQueryParam" /\ Pre.hasUrl) =>
       /\ Post.err = Pre.err
       /\ Post.hasUrl /\ Post.url.base = Pre.url.base
       /\ \A k \in QueryKeys :
            ParseQuery(Post.url.rawQuery)[k] =
              IF k = last.key THEN Append(ParseQuery(Pre.url.rawQuery)[k], last.vals[1])
              ELSE ParseQuery(Pre.url.rawQuery)[k]
       /\ \A i \in 1..Len(Post.url.rawQuery) : Post.url.rawQuery[i].ok

\* a second value was added for a key of the query, another key being there
C8_Witness ==
  /\ last.op = "SetQueryParam" /\ Pre.hasUrl
  /\ ParseQuery(Pre.url.rawQuery)[last.key] # <<>>
  /\ last.vals[1] \notin Range(ParseQuery(Pre.url.rawQuery)[last.key])
  /\ \E k \in QueryKeys \ {last.key} : ParseQuery(Pre.url.rawQuery)[k] # <<>>
  /\ Len(ParseQuery(Post.url.rawQuery)[last.key]) = 2

\* C9: SetHeader with values leaves exactly those values under the key, in
\* order, and every other header and the deferred error as they were;
\* SetHeader without values records an error naming the key and leaves the
\* headers as they were.
C9_SetHeader ==
  last.op = "SetHeader" =>
    IF Len(last.vals) >= 1
      THEN /\ HeaderValues(Post.header, last.key) = last.vals
           /\ \A k \in CanonKeys \ {Canon(last.key)} : Post.header[k] = Pre.header[k]
           /\ Post.err = Pre.err
      ELSE /\ Post.err # NoErr /\ last.key \in Range(Post.err)
           /\ Post.header = Pre.header

\* two values replaced other values of the key, another header being set
C9_Witness ==
  /\ last.op = "SetHeader" /\ Len(last.vals) = 2
  /\ Pre.header[Canon(last.key)] \notin {<<>>, last.vals}
  /\ \E k \in CanonKeys \ {Canon(last.key)} : Pre.header[k] # <<>>
  /\ Post.header[Canon(last.key)] = last.vals

\* C10: Json leaves content-type at exactly application/json whether or not
\* the value serializes; a value that does not serialize leaves its error as
\* the deferred error and the body as it was; one that does becomes the new,
\* unread body and the deferred error stays as it was.
C10_Json ==
  last.op = "Json" =>
    /\ HeaderValues(Post.header, "content-type") = <<"application/json">>
    /\ \A k \in CanonKeys \ {Canon("content-type")} : Post.header[k] = Pre.header[k]
    /\ IF Marshal(last.arg).err # NoErr
         THEN /\ Post.err = Marshal(last.arg).err
              /\ Post.hasBody = Pre.hasBody /\ Post.body = Pre.body
         ELSE /\ Post.err = Pre.err
              /\ Post.hasBody /\ Post.body.data = Marshal(last.arg).data
              /\ Post.body.pos = 0 /\ ~Post.body.closed

\* a value that does not serialize, given to a builder that has a body and
\* no content-type yet
C10_Witness ==
  /\ last.op = "Json" /\ Marshal(last.arg).err # NoErr
  /\ Pre.hasBody /\ Pre.body.data = BodyData
  /\ Pre.header[Canon("content-type")] = <<>>
  /\ Post.err # NoErr /\ Post.header[Canon("content-type")] = <<"application/json">>

====
